---- MODULE Spec2Model ----
(***************************************************************************)
(* Model of the Daly CAN battery driver, class Daly_Can of                 *)
(* etc/dbus-serialbattery/bms/daly_can.py.                                 *)
(*                                                                         *)
(* The Battery State Model is the record `battery` (the attributes of      *)
(* self).  Every public method is one action; the frames the bus hands to  *)
(* a request are the action's inputs.  Values that Python keeps as floats  *)
(* are kept as exact integers in the unit of the wire:                     *)
(*   voltage, current, soc      in tenths (raw / 10),                      *)
(*   cell voltages              in millivolt (raw / 1000),                 *)
(*   capacity_remain            in mAh (raw / 1000).                       *)
(* An attribute is None (<<>>) or Some(x) (<<x>>).                         *)
(*                                                                         *)
(* The transport handle self.can_bus and the command ids self.command_*    *)
(* are taken as provided by the surrounding driver: the class itself       *)
(* leaves can_bus at None.                                                 *)
(***************************************************************************)
EXTENDS Integers, Sequences, FiniteSets, TLC

VARIABLES
    battery,    \* the attributes of the Daly_Can object
    now,        \* time(), in seconds
    last,       \* history: the last method invoked, what it returned, what it sent and read
    invert,     \* INVERT_CURRENT_MEASUREMENT of the configuration: 1 or -1
    run,        \* history: position in a run of successful cycles that began at poll_step 0
    bus         \* the call of read_bus_data_daly in progress, step by step

vars == <<battery, now, invert, last, run, bus>>

----------------------------------------------------------------------------
(* Program constants *)

CURRENT_ZERO_CONSTANT == 30000
TEMP_ZERO_CONSTANT == 40
\* utils.py, default configuration
BATTERY_CAPACITY == 50
MAX_BATTERY_CHARGE_CURRENT == 50
MAX_BATTERY_DISCHARGE_CURRENT == 60
\* MIN_CELL_VOLTAGE = 2.9 V, in millivolt
MIN_CELL_VOLTAGE == 2900
\* the error latch of read_daly_can, seconds
ERROR_TIMEOUT == 120
\* timeout=0.2 of can_bus.send, in steps of 0.1 s
TIMEOUT_TICKS == 2
\* expectedMessageCount of the cell voltage request
CELL_VOLTS_FRAMES == 6
\* faulty variant: one more try
TRIES_VALID_3 == 2 + 1
\* triesValid of read_soc_data
TRIES_VALID == 2

\* CAN_FRAMES, as (command byte) of 0x18<cmd>0140 and 0x18<cmd>4001
COMMAND_STATUS_ID == 412352832
RESPONSE_STATUS_ID == 412368897
RESPONSE_SOC_ID == 412106753

----------------------------------------------------------------------------
(* Bounds of the model *)

\* the clock runs from StartTime to StartTime + MaxElapsed
MaxElapsed == 122
\* how long a call of read_bus_data_daly is followed while it waits for a frame,
\* in steps of 0.1 s
MaxWait == 3
\* device addresses 0 .. MaxAddress
MaxAddress == 1
\* time() when the object is constructed, seconds
StartTime == 1000

----------------------------------------------------------------------------
(* Option values *)

None == <<>>
Some(x) == <<x>>
IsNone(o) == o = <<>>
Val(o) == o[1]

----------------------------------------------------------------------------
(* struct.unpack_from, big-endian, on a sequence of bytes; offset is 0-based *)

\* calcsize of the formats used
SIZE_STATUS == 8   \* ">bb??bhx"
SIZE_SOC == 8      \* ">hhhh"
SIZE_ALARM == 8    \* ">bbbbbbbb"
SIZE_CELLS == 7    \* ">Bhhh"
SIZE_MINMAX == 6   \* ">hbhb"
SIZE_TEMP == 4     \* ">bbbb"
SIZE_FET == 8      \* ">b??BL"

\* unpack_from raises struct.error unless the buffer holds size bytes from offset
CanUnpack(size, data, offset) == Len(data) - offset >= size

unpack_B(data, offset) == data[offset + 1]
unpack_b(data, offset) ==
    IF data[offset + 1] >= 128 THEN data[offset + 1] - 256 ELSE data[offset + 1]
unpack_H(data, offset) == data[offset + 1] * 256 + data[offset + 2]
unpack_h(data, offset) ==
    IF unpack_H(data, offset) >= 32768
    THEN unpack_H(data, offset) - 65536
    ELSE unpack_H(data, offset)
unpack_L(data, offset) ==
    ((data[offset + 1] * 256 + data[offset + 2]) * 256 + data[offset + 3]) * 256
        + data[offset + 4]
unpack_bool(data, offset) == data[offset + 1] # 0

----------------------------------------------------------------------------
(* The object after __init__.  The attributes inherited from Battery are   *)
(* unset (None), cells is the empty list.                                  *)

NoProtection ==
    [high_voltage |-> None, low_voltage |-> None, high_charge_temp |-> None,
     low_charge_temp |-> None, high_temperature |-> None, low_temperature |-> None,
     high_charge_current |-> None, low_soc |-> None]

InitBattery(address) ==
    [poll_step |-> 0,
     device_address |-> address,
     error_active |-> FALSE,
     last_error_time |-> 0,
     charger_connected |-> None, load_connected |-> None,
     cell_min_voltage |-> None, cell_max_voltage |-> None,
     cell_min_no |-> None, cell_max_no |-> None,
     voltage |-> None, current |-> None, soc |-> None,
     cell_count |-> None, temp_sensors |-> None, charge_cycles |-> None,
     hardware_version |-> None,
     charge_fet |-> None, discharge_fet |-> None, capacity_remain |-> None,
     temp1 |-> None, temp2 |-> None,
     capacity |-> None,
     cells |-> <<>>,
     protection |-> NoProtection]

----------------------------------------------------------------------------
(* What a method did: the object after it, what it returned ("true",       *)
(* "false", or "raise" when an exception left it), the requests it issued  *)
(* and the replies it consumed.                                            *)

Returned(b, value, requests, used) ==
    [b |-> b, ret |-> IF value THEN "true" ELSE "false", requests |-> requests, used |-> used]
Raised(b, requests, used) ==
    [b |-> b, ret |-> "raise", requests |-> requests, used |-> used]

----------------------------------------------------------------------------
(* read_bus_data_daly, as one step.  A reply is what the bus does with one *)
(* request: sent = FALSE when can_bus.send times out (it raises), else     *)
(* data is the concatenation of the expectedMessageCount frames the        *)
(* iteration over can_bus yields.  The step-by-step call is BusSpec below. *)

read_bus_data_daly(reply) ==
    [raised |-> ~reply.sent, response |-> reply.data]

\* `x is False`: the response is a bytearray, never the object False
is_False(response) == FALSE

----------------------------------------------------------------------------
(* read_status_data *)

read_status_data(b, reply) ==
    LET status_data == read_bus_data_daly(reply)
        d == status_data.response
        req == <<"COMMAND_STATUS">>
    IN  IF status_data.raised THEN Raised(b, req, <<reply>>)
        ELSE IF is_False(d) THEN Returned(b, FALSE, req, <<reply>>)
        ELSE IF ~CanUnpack(SIZE_STATUS, d, 0) THEN Raised(b, req, <<reply>>)
        ELSE LET b1 == [b EXCEPT !.cell_count = Some(unpack_b(d, 0)),
                                 !.temp_sensors = Some(unpack_b(d, 1)),
                                 !.charger_connected = Some(unpack_bool(d, 2)),
                                 !.load_connected = Some(unpack_bool(d, 3)),
                                 !.charge_cycles = Some(unpack_h(d, 5))]
             IN  IF Val(b1.cell_count) = 0 THEN Returned(b1, FALSE, req, <<reply>>)
                 ELSE Returned([b1 EXCEPT !.hardware_version =
                                    Some(<<"DalyBMS", Val(b1.cell_count), "S">>)],
                               TRUE, req, <<reply>>)

----------------------------------------------------------------------------
(* read_soc_data.  replies[i] answers the i-th request of the call.        *)

\* -(MAX_BATTERY_DISCHARGE_CURRENT * 2.1) and MAX_BATTERY_CHARGE_CURRENT * 1.3, in tenths
crntMinValid == -(MAX_BATTERY_DISCHARGE_CURRENT * 21)
crntMaxValid == MAX_BATTERY_CHARGE_CURRENT * 13

\* faulty variant: the configured inversion is not applied
soc_current_not_inverted(raw) == 0 - (raw - CURRENT_ZERO_CONSTANT)

\* (current - CURRENT_ZERO_CONSTANT) / -10 * INVERT_CURRENT_MEASUREMENT, in tenths
soc_current(raw) == (0 - (raw - CURRENT_ZERO_CONSTANT)) * invert

current_valid(current) == crntMinValid < current /\ current < crntMaxValid

RECURSIVE soc_tries(_, _, _, _, _)
soc_tries(b, replies, triesValid, requests, used) ==
    IF ~(triesValid > 0) THEN Returned(b, FALSE, requests, used)
    ELSE LET reply == replies[Len(used) + 1]
             soc_data == read_bus_data_daly(reply)
             d == soc_data.response
             req == Append(requests, "COMMAND_SOC")
             use == Append(used, reply)
         IN  IF soc_data.raised THEN Raised(b, req, use)
             ELSE IF is_False(d) THEN Returned(b, FALSE, req, use)
             ELSE IF ~CanUnpack(SIZE_SOC, d, 0) THEN Raised(b, req, use)
             ELSE LET voltage == unpack_h(d, 0)
                      current == soc_current(unpack_h(d, 4))
                      soc == unpack_h(d, 6)
                  IN  IF current_valid(current)
                      THEN Returned([b EXCEPT !.voltage = Some(voltage),
                                              !.current = Some(current),
                                              !.soc = Some(soc)],
                                    TRUE, req, use)
                      ELSE soc_tries(b, replies, triesValid - 1, req, use)

read_soc_data(b, replies) == soc_tries(b, replies, TRIES_VALID, <<>>, <<>>)

----------------------------------------------------------------------------
(* read_alarm_data *)

\* bit k (LSB = 0) of the byte x; a signed byte is taken in two's complement
ToU8(x) == IF x < 0 THEN x + 256 ELSE x
Bit(x, k) == (ToU8(x) \div (2 ^ k)) % 2 = 1
\* x & mask # 0
BitAnd(x, mask) == \E k \in 0..7 : Bit(x, k) /\ Bit(mask, k)

\* faulty variant: the pre-alarm bits are tested first
severity_prealarm_first(x, alarm, prealarm) ==
    IF BitAnd(x, prealarm) THEN 1 ELSE IF BitAnd(x, alarm) THEN 2 ELSE 0

\* if x & alarm: 2 elif x & prealarm: 1 else: 0
severity(x, alarm, prealarm) ==
    IF BitAnd(x, alarm) THEN 2 ELSE IF BitAnd(x, prealarm) THEN 1 ELSE 0

\* if x & 2 or x & 8: 2 elif x & 1 or x & 4: 1 else: 0
severity_current(x) ==
    IF BitAnd(x, 2) \/ BitAnd(x, 8) THEN 2
    ELSE IF BitAnd(x, 1) \/ BitAnd(x, 4) THEN 1 ELSE 0

alarm_protection(al_volt, al_temp, al_crnt_soc) ==
    [high_voltage |-> Some(severity(al_volt, 48, 15)),
     low_voltage |-> Some(severity(al_volt, 128, 64)),
     high_charge_temp |-> Some(severity(al_temp, 2, 1)),
     low_charge_temp |-> Some(severity(al_temp, 8, 4)),
     high_temperature |-> Some(severity(al_temp, 32, 16)),
     low_temperature |-> Some(severity(al_temp, 128, 64)),
     high_charge_current |-> Some(severity_current(al_crnt_soc)),
     low_soc |-> Some(severity(al_crnt_soc, 128, 64))]

read_alarm_data(b, reply) ==
    LET alarm_data == read_bus_data_daly(reply)
        d == alarm_data.response
        req == <<"COMMAND_ALARM">>
    IN  IF alarm_data.raised THEN Raised(b, req, <<reply>>)
        ELSE IF is_False(d) THEN Returned(b, FALSE, req, <<reply>>)
        ELSE IF ~CanUnpack(SIZE_ALARM, d, 0) THEN Raised(b, req, <<reply>>)
        ELSE Returned([b EXCEPT !.protection =
                           alarm_protection(unpack_b(d, 0), unpack_b(d, 1), unpack_b(d, 2))],
                      TRUE, req, <<reply>>)

----------------------------------------------------------------------------
(* read_cells_volts *)

\* MIN_CELL_VOLTAGE / 2, in millivolt
lowMin == MIN_CELL_VOLTAGE \div 2

\* faulty variant: a voltage of exactly lowMin is unknown too
cell_voltage_inclusive(raw) == IF raw <= lowMin THEN None ELSE Some(raw)

\* None if cellVoltage < lowMin else cellVoltage
cell_voltage(raw) == IF raw < lowMin THEN None ELSE Some(raw)

\* faulty variant: the frame index is taken as 0 based
cell_number_0based(frame, idx) == (frame * 3) + idx

\* ((frame - 1) * 3) + idx
cell_number(frame, idx) == ((frame - 1) * 3) + idx

\* a Python list of length n indexed by i: a negative i counts from the end
PyIndexOk(n, i) == (0 - n) <= i /\ i < n
PyIndex(n, i) == IF i >= 0 THEN i + 1 ELSE n + i + 1

\* [Cell(True) for idx in range(cell_count)]
new_cells(cell_count) == [i \in 1..cell_count |-> None]

\* for idx in range(3), from idx on: the cells, and whether self.cells[cellnum] raised
RECURSIVE frame_cells(_, _, _, _, _)
frame_cells(cells, cell_count, data, bufIdx, idx) ==
    IF idx >= 3 THEN [cells |-> cells, raised |-> FALSE]
    ELSE LET frame == unpack_B(data, bufIdx)
             frameCell == unpack_h(data, bufIdx + 1 + 2 * idx)
             cellnum == cell_number(frame, idx)
         IN  IF cellnum >= cell_count THEN [cells |-> cells, raised |-> FALSE]
             ELSE IF ~PyIndexOk(Len(cells), cellnum) THEN [cells |-> cells, raised |-> TRUE]
             ELSE frame_cells(
                     [cells EXCEPT ![PyIndex(Len(cells), cellnum)] = cell_voltage(frameCell)],
                     cell_count, data, bufIdx, idx + 1)

\* while bufIdx < len(cells_volts_data)
RECURSIVE cells_frames(_, _, _, _)
cells_frames(cells, cell_count, data, bufIdx) ==
    IF ~(bufIdx < Len(data)) THEN [cells |-> cells, raised |-> FALSE]
    ELSE IF ~CanUnpack(SIZE_CELLS, data, bufIdx) THEN [cells |-> cells, raised |-> TRUE]
    ELSE LET f == frame_cells(cells, cell_count, data, bufIdx, 0)
         IN  IF f.raised THEN f
             ELSE cells_frames(f.cells, cell_count, data, bufIdx + 8)

read_cells_volts(b, reply) ==
    IF IsNone(b.cell_count) THEN Returned(b, TRUE, <<>>, <<>>)
    ELSE LET cells_volts_data == read_bus_data_daly(reply)
             d == cells_volts_data.response
             req == <<"COMMAND_CELL_VOLTS">>
             cell_count == Val(b.cell_count)
         IN  IF cells_volts_data.raised THEN Raised(b, req, <<reply>>)
             ELSE IF is_False(d) THEN Returned(b, FALSE, req, <<reply>>)
             ELSE LET cells0 == IF Len(b.cells) # cell_count
                                THEN new_cells(cell_count) ELSE b.cells
                      r == cells_frames(cells0, cell_count, d, 0)
                      b1 == [b EXCEPT !.cells = r.cells]
                  IN  IF r.raised THEN Raised(b1, req, <<reply>>)
                      ELSE Returned(b1, TRUE, req, <<reply>>)

----------------------------------------------------------------------------
(* read_cell_voltage_range_data, read_temperature_range_data, read_fed_data *)

read_cell_voltage_range_data(b, reply) ==
    LET minmax_data == read_bus_data_daly(reply)
        d == minmax_data.response
        req == <<"COMMAND_MINMAX_CELL_VOLTS">>
    IN  IF minmax_data.raised THEN Raised(b, req, <<reply>>)
        ELSE IF is_False(d) THEN Returned(b, FALSE, req, <<reply>>)
        ELSE IF ~CanUnpack(SIZE_MINMAX, d, 0) THEN Raised(b, req, <<reply>>)
        ELSE Returned([b EXCEPT !.cell_max_no = Some(unpack_b(d, 2) - 1),
                                !.cell_min_no = Some(unpack_b(d, 5) - 1),
                                !.cell_max_voltage = Some(unpack_h(d, 0)),
                                !.cell_min_voltage = Some(unpack_h(d, 3))],
                      TRUE, req, <<reply>>)

read_temperature_range_data(b, reply) ==
    LET minmax_data == read_bus_data_daly(reply)
        d == minmax_data.response
        req == <<"COMMAND_MINMAX_TEMP">>
    IN  IF minmax_data.raised THEN Raised(b, req, <<reply>>)
        ELSE IF is_False(d) THEN Returned(b, FALSE, req, <<reply>>)
        ELSE IF ~CanUnpack(SIZE_TEMP, d, 0) THEN Raised(b, req, <<reply>>)
        ELSE Returned([b EXCEPT !.temp1 = Some(unpack_b(d, 2) - TEMP_ZERO_CONSTANT),
                                !.temp2 = Some(unpack_b(d, 0) - TEMP_ZERO_CONSTANT)],
                      TRUE, req, <<reply>>)

read_fed_data(b, reply) ==
    LET fed_data == read_bus_data_daly(reply)
        d == fed_data.response
        req == <<"COMMAND_FET">>
    IN  IF fed_data.raised THEN Raised(b, req, <<reply>>)
        ELSE IF is_False(d) THEN Returned(b, FALSE, req, <<reply>>)
        ELSE IF ~CanUnpack(SIZE_FET, d, 0) THEN Raised(b, req, <<reply>>)
        ELSE Returned([b EXCEPT !.charge_fet = Some(unpack_bool(d, 1)),
                                !.discharge_fet = Some(unpack_bool(d, 2)),
                                !.capacity_remain = Some(unpack_L(d, 4))],
                      TRUE, req, <<reply>>)

----------------------------------------------------------------------------
(* refresh_data.  `result and read(...)` does not call read once result is *)
(* False; an exception raised by a read leaves refresh_data at once.       *)

Skipped(b) == [b |-> b, ret |-> "false", requests |-> <<>>, used |-> <<>>]

\* the read of the if/elif chain on poll_step
optional_read(b, step, reply) ==
    CASE step = 0 -> read_cell_voltage_range_data(b, reply)
      [] step = 1 -> read_alarm_data(b, reply)
      [] step = 2 -> read_cells_volts(b, reply)
      [] step = 3 -> read_temperature_range_data(b, reply)
      [] OTHER -> Returned(b, TRUE, <<>>, <<>>)

optional_name(step) ==
    CASE step = 0 -> <<"read_cell_voltage_range_data">>
      [] step = 1 -> <<"read_alarm_data">>
      [] step = 2 -> <<"read_cells_volts">>
      [] step = 3 -> <<"read_temperature_range_data">>
      [] OTHER -> <<>>

\* faulty variant: the cycle is reset one step early
next_poll_step_early(step) == (IF step >= 2 THEN -1 ELSE step) + 1

\* elif self.poll_step == 3: ... self.poll_step = -1;  then self.poll_step += 1
next_poll_step(step) == (IF step = 3 THEN -1 ELSE step) + 1

\* faulty variant: the FET read does not depend on the SOC read
fed_step_always(s, fet_reply) == read_fed_data(s.b, fet_reply)

\* result = result and self.read_fed_data(self.can_bus)
fed_step(s, fet_reply) ==
    IF s.ret = "true" THEN read_fed_data(s.b, fet_reply) ELSE Skipped(s.b)

\* result = result and self.read_<optional>(self.can_bus)
optional_step(f, step, opt_reply) ==
    IF f.ret = "true" THEN optional_read(f.b, step, opt_reply) ELSE Skipped(f.b)

refresh_data(b, soc_replies, fet_reply, opt_reply) ==
    LET s == read_soc_data(b, soc_replies)
        f == fed_step(s, fet_reply)
        o == optional_step(f, b.poll_step, opt_reply)
        readsF == IF s.ret = "true" THEN <<"read_soc_data", "read_fed_data">>
                  ELSE <<"read_soc_data">>
        readsO == IF f.ret = "true" THEN readsF \o optional_name(b.poll_step) ELSE readsF
    IN  IF s.ret = "raise"
        THEN [b |-> s.b, ret |-> "raise", requests |-> s.requests, used |-> s.used,
              reads |-> <<"read_soc_data">>]
        ELSE IF f.ret = "raise"
        THEN [b |-> f.b, ret |-> "raise", requests |-> s.requests \o f.requests,
              used |-> s.used \o f.used, reads |-> readsF]
        ELSE IF o.ret = "raise"
        THEN [b |-> o.b, ret |-> "raise",
              requests |-> s.requests \o f.requests \o o.requests,
              used |-> s.used \o f.used \o o.used, reads |-> readsO]
        ELSE [b |-> [o.b EXCEPT !.poll_step = next_poll_step(b.poll_step)],
              ret |-> o.ret,
              requests |-> s.requests \o f.requests \o o.requests,
              used |-> s.used \o f.used \o o.used, reads |-> readsO]

----------------------------------------------------------------------------
(* read_daly_can and test_connection.  cache is what                       *)
(* can_message_cache_callback() returns: a sequence of <<frame_id, data>>, *)
(* in the order of the dictionary.                                         *)

\* unpack_from(">BB??BHX", data): struct has no format character X, so the call
\* raises struct.error whatever the data
STATUS_CACHE_FORMAT_OK == FALSE

\* if ((time() - self.last_error_time) > 120.0) and self.error_active is True
reset_error(b, t) ==
    IF (t - b.last_error_time) > ERROR_TIMEOUT /\ b.error_active = TRUE
    THEN [b EXCEPT !.error_active = FALSE]
    ELSE b

\* normalized_arbitration_id in self.CAN_FRAMES[self.COMMAND_STATUS]
is_status_frame(b, frame_id) == frame_id + b.device_address \in {COMMAND_STATUS_ID}

\* the for loop over the cache, from item i on, data_check frames counted so far
RECURSIVE cache_frames(_, _, _, _)
cache_frames(b, cache, i, data_check) ==
    IF i > Len(cache) THEN [b |-> b, raised |-> FALSE, data_check |-> data_check]
    ELSE LET frame_id == cache[i][1]
             d == cache[i][2]
         IN  IF ~is_status_frame(b, frame_id) THEN cache_frames(b, cache, i + 1, data_check)
             ELSE IF ~STATUS_CACHE_FORMAT_OK \/ ~CanUnpack(SIZE_STATUS, d, 0)
             THEN [b |-> b, raised |-> TRUE, data_check |-> data_check]
             ELSE LET b1 == [b EXCEPT !.cell_count = Some(unpack_B(d, 0)),
                                      !.temp_sensors = Some(unpack_B(d, 1)),
                                      !.charger_connected = Some(unpack_bool(d, 2)),
                                      !.load_connected = Some(unpack_bool(d, 3)),
                                      !.charge_cycles = Some(unpack_H(d, 5)),
                                      !.hardware_version =
                                          Some(<<"Daly CAN", unpack_B(d, 0), "S">>)]
                  IN  cache_frames(b1, cache, i + 1,
                                   IF unpack_B(d, 0) # 0 THEN data_check + 1 ELSE data_check)

read_daly_can(b, cache, t) ==
    LET c == cache_frames(reset_error(b, t), cache, 1, 0)
    IN  IF c.raised THEN Raised(c.b, <<>>, <<>>)
        ELSE Returned(c.b, c.data_check # 0, <<>>, <<>>)

\* get_settings sets the capacity and returns True; the except clause turns
\* every exception into False
get_settings(b) == Returned([b EXCEPT !.capacity = Some(BATTERY_CAPACITY)], TRUE, <<>>, <<>>)

test_connection(b, cache, t) ==
    LET g == get_settings(b)
    IN  IF cache = <<>> THEN Returned(g.b, FALSE, <<>>, <<>>)
        ELSE LET r == read_daly_can(g.b, cache, t)
             IN  Returned(r.b, g.ret = "true" /\ r.ret = "true", <<>>, <<>>)

----------------------------------------------------------------------------
(* The inputs: what the bus answers to a request.                          *)

PackU16(n) == <<n \div 256, n % 256>>
PackU32(n) == PackU16(n \div 65536) \o PackU16(n % 65536)

\* the wire layouts, padded to the 8 bytes of a frame
StatusPayload(cells, sensors, charger, load, cycles) ==
    <<cells, sensors, charger, load, 0>> \o PackU16(cycles) \o <<0>>
SocPayload(voltage, current, soc) ==
    PackU16(voltage) \o <<0, 0>> \o PackU16(current) \o PackU16(soc)
FetPayload(charge, discharge, capacity) == <<0, charge, discharge, 0>> \o PackU32(capacity)
MinMaxPayload(maxmv, maxno, minmv, minno) ==
    PackU16(maxmv) \o <<maxno>> \o PackU16(minmv) \o <<minno, 0, 0>>
TempPayload(maxt, maxno, mint, minno) == <<maxt, maxno, mint, minno, 0, 0, 0, 0>>
AlarmPayload(volt, temp, crnt_soc) == <<volt, temp, crnt_soc, 0, 0, 0, 0, 0>>
CellFrame(frame, v1, v2, v3) == <<frame>> \o PackU16(v1) \o PackU16(v2) \o PackU16(v3) \o <<0>>

Frame(data) == [sent |-> TRUE, data |-> data]
\* can_bus.send raised: the send timed out
SendTimeout == [sent |-> FALSE, data |-> <<>>]
\* a frame without data, and one shorter than every layout
EmptyFrame == Frame(<<>>)
ShortFrame == Frame(<<1, 2, 3>>)
BadReplies == {SendTimeout, EmptyFrame, ShortFrame}
PollBad == {EmptyFrame, ShortFrame}

\* the replies of the polling cycle: one or two good payloads of each kind,
\* a current out of bounds, and the bad replies
PollSoc == PollBad \cup {Frame(SocPayload(520, 30000, 805)), Frame(SocPayload(520, 32000, 805))}
PollFet == PollBad \cup {Frame(FetPayload(1, 1, 100000))}
PollOpt ==
    [step \in 0..3 |->
        PollBad \cup
        CASE step = 0 -> {Frame(MinMaxPayload(3400, 2, 3300, 1))}
          [] step = 1 -> {Frame(AlarmPayload(48, 0, 0))}
          [] step = 2 -> {Frame(CellFrame(1, 3300, 3310, 3320))}
          [] step = 3 -> {Frame(TempPayload(65, 1, 60, 2))}]
PollStatus == {EmptyFrame, Frame(StatusPayload(4, 2, 1, 1, 7))}

\* the caches of can_message_cache_callback: no frame, one frame, two frames
CacheIds ==
    {COMMAND_STATUS_ID - a : a \in 0..MaxAddress}
        \cup {RESPONSE_STATUS_ID - a : a \in 0..MaxAddress}
        \cup {RESPONSE_STATUS_ID + a : a \in 0..MaxAddress}
        \cup {RESPONSE_SOC_ID}
CacheData ==
    {StatusPayload(4, 2, 1, 1, 7), StatusPayload(0, 2, 1, 0, 7),
     StatusPayload(200, 130, 1, 0, 40000)}
Caches ==
    {<<>>} \cup {<<<<id, d>>>> : id \in CacheIds, d \in CacheData}
           \cup {<<<<RESPONSE_SOC_ID, d>>, <<id, d>>>> : id \in CacheIds \ {RESPONSE_SOC_ID},
                                                         d \in CacheData}

\* time passes in steps of about a minute
TickSteps == {59, 60, 61}

----------------------------------------------------------------------------
(* The actions: one per method of the class.                               *)

Did(op, r, reads, cycle, cache) ==
    [op |-> op, ret |-> r.ret, requests |-> r.requests, used |-> r.used,
     reads |-> reads, cycle |-> cycle, cache |-> cache]

NoCall ==
    [op |-> "__init__", ret |-> "true", requests |-> <<>>, used |-> <<>>,
     reads |-> <<>>, cycle |-> -1, cache |-> <<>>]

IdleBus == [pc |-> "idle", expected |-> 0, count |-> 0, response |-> <<>>, waited |-> 0]

Init ==
    /\ \E address \in 0..MaxAddress : battery = InitBattery(address)
    /\ now = StartTime
    /\ invert \in {1, -1}
    /\ last = NoCall
    /\ run = -1
    /\ bus = IdleBus

\* the answers to the requests of one read_soc_data call; an answer to a request
\* the call does not issue is not drawn (it repeats the last one drawn)
SocReplySeqs(SocSet) ==
    {q \in [1..TRIES_VALID -> SocSet] :
        \A i \in 2..TRIES_VALID :
            i > Len(read_soc_data(battery, q).used) => q[i] = q[i - 1]}

\* the configuration of the polling cycle: no device address, current not inverted
PollInit == Init /\ invert = 1 /\ battery.device_address = 0

\* the cycle of a run of successful cycles that began at poll_step 0, or -1
CycleOfRun == IF run >= 0 THEN run ELSE IF battery.poll_step = 0 THEN 0 ELSE -1

RefreshData(SocSet, FetSet, OptSets) ==
    \E soc_replies \in SocReplySeqs(SocSet), fet_reply \in FetSet,
       opt_reply \in OptSets[battery.poll_step] :
        LET r == refresh_data(battery, soc_replies, fet_reply, opt_reply)
            ok == r.ret = "true" /\ CycleOfRun >= 0
        IN  /\ battery' = r.b
            /\ last' = Did("refresh_data", r, r.reads, IF ok THEN CycleOfRun ELSE -1, <<>>)
            /\ run' = IF ok THEN (CycleOfRun + 1) % 4 ELSE -1
            /\ UNCHANGED <<now, invert, bus>>

Call(op, r) ==
    /\ battery' = r.b
    /\ last' = Did(op, r, <<op>>, -1, <<>>)
    /\ UNCHANGED <<now, invert, run, bus>>

ReadSocData(SocSet) ==
    \E soc_replies \in SocReplySeqs(SocSet) :
        Call("read_soc_data", read_soc_data(battery, soc_replies))
ReadFedData(Replies) ==
    \E reply \in Replies : Call("read_fed_data", read_fed_data(battery, reply))
ReadStatusData(Replies) ==
    \E reply \in Replies : Call("read_status_data", read_status_data(battery, reply))
ReadAlarmData(Replies) ==
    \E reply \in Replies : Call("read_alarm_data", read_alarm_data(battery, reply))
ReadCellsVolts(Replies) ==
    \E reply \in Replies : Call("read_cells_volts", read_cells_volts(battery, reply))
ReadCellVoltageRangeData(Replies) ==
    \E reply \in Replies :
        Call("read_cell_voltage_range_data", read_cell_voltage_range_data(battery, reply))
ReadTemperatureRangeData(Replies) ==
    \E reply \in Replies :
        Call("read_temperature_range_data", read_temperature_range_data(battery, reply))

ReadDalyCan(CacheSet) ==
    \E cache \in CacheSet :
        LET r == read_daly_can(battery, cache, now)
        IN  /\ battery' = r.b
            /\ last' = Did("read_daly_can", r, <<>>, -1, cache)
            /\ UNCHANGED <<now, invert, run, bus>>

TestConnection(CacheSet) ==
    \E cache \in CacheSet :
        LET r == test_connection(battery, cache, now)
        IN  /\ battery' = r.b
            /\ last' = Did("test_connection", r, <<>>, -1, cache)
            /\ UNCHANGED <<now, invert, run, bus>>

\* time() advances
Tick ==
    \E d \in TickSteps :
        /\ now + d <= StartTime + MaxElapsed
        /\ now' = now + d
        /\ UNCHANGED <<battery, invert, last, run, bus>>

\* the surrounding driver latches an error: error_active and its time stamp
LatchError ==
    /\ ~battery.error_active
    /\ battery' = [battery EXCEPT !.error_active = TRUE, !.last_error_time = now]
    /\ UNCHANGED <<now, invert, last, run, bus>>

----------------------------------------------------------------------------
(* The driver: the polling cycle, the status read and the cache pull.      *)

Next ==
    \/ RefreshData(PollSoc, PollFet, PollOpt)
    \/ ReadStatusData(PollStatus)

Spec == PollInit /\ [][Next]_vars

----------------------------------------------------------------------------
(* Claims about the polling cycle, under Spec.                             *)

\* the SOC replies a call consumed: one per SOC request it issued
SocUsed == SubSeq(last.used, 1, Cardinality({i \in DOMAIN last.requests :
                                                 last.requests[i] = "COMMAND_SOC"}))

\* the reply is a full SOC payload whose current passes the plausibility gate
SocAccepted(reply) ==
    /\ reply.sent
    /\ CanUnpack(SIZE_SOC, reply.data, 0)
    /\ current_valid(soc_current(unpack_h(reply.data, 4)))

\* the reply is a full SOC payload whose current is outside the bounds
SocRejected(reply) ==
    /\ reply.sent
    /\ CanUnpack(SIZE_SOC, reply.data, 0)
    /\ ~current_valid(soc_current(unpack_h(reply.data, 4)))

\* the reply holds no data, or less than size bytes
ShortReply(reply, size) == ~reply.sent \/ Len(reply.data) < size

\* C1: every invocation of refresh_data leaves poll_step at (its previous value
\* + 1) mod 4, whatever the reads of the cycle did, also when a reply was empty or
\* short; poll_step stays in 0..3.
C1_PollStepAdvances ==
    [][last'.op = "refresh_data" =>
          /\ battery'.poll_step = (battery.poll_step + 1) % 4
          /\ battery'.poll_step \in 0..3]_vars

\* C2 as claimed: every invocation of refresh_data issues the FET request, also
\* when its SOC read failed (stated for the invocations that return).
C2_FetEveryCycle ==
    (last.op = "refresh_data" /\ last.ret # "raise") =>
        \E i \in DOMAIN last.requests : last.requests[i] = "COMMAND_FET"

\* C2 as amended: every invocation of refresh_data issues the SOC request first;
\* it issues the FET request exactly when the SOC read returned success, and then
\* right after the SOC requests and once.
C2_FetAfterSocSuccess ==
    last.op = "refresh_data" =>
        /\ last.requests # <<>> /\ last.requests[1] = "COMMAND_SOC"
        /\ SocUsed # <<>>
        /\ (\E i \in DOMAIN last.requests : last.requests[i] = "COMMAND_FET")
               <=> SocAccepted(SocUsed[Len(SocUsed)])
        /\ \A i \in DOMAIN last.requests :
               last.requests[i] = "COMMAND_FET" => i = Len(SocUsed) + 1

\* a cycle whose SOC read returned failure after two rejected readings
C2_Witness ==
    /\ last.op = "refresh_data" /\ last.ret = "false"
    /\ last.requests = <<"COMMAND_SOC", "COMMAND_SOC">>
    /\ \A i \in DOMAIN SocUsed : SocRejected(SocUsed[i])

\* the optional read and its request, by position in the cycle
C3_Read(k) ==
    CASE k = 0 -> "read_cell_voltage_range_data"
      [] k = 1 -> "read_alarm_data"
      [] k = 2 -> "read_cells_volts"
      [] k = 3 -> "read_temperature_range_data"
C3_Request(k) ==
    CASE k = 0 -> "COMMAND_MINMAX_CELL_VOLTS"
      [] k = 1 -> "COMMAND_ALARM"
      [] k = 2 -> "COMMAND_CELL_VOLTS"
      [] k = 3 -> "COMMAND_MINMAX_TEMP"

\* C3: in a run of successful cycles that began at poll_step 0, cycle k (counted
\* mod 4) makes the optional read of category k: cell voltage range, alarm, cell
\* voltages, temperature range.  The request of that category is the last one of
\* the cycle; read_cells_volts issues none while the cell count is unknown.
C3_RoundRobin ==
    (last.op = "refresh_data" /\ last.cycle >= 0) =>
        /\ last.ret = "true"
        /\ battery.poll_step = (last.cycle + 1) % 4
        /\ last.reads = <<"read_soc_data", "read_fed_data", C3_Read(last.cycle)>>
        /\ \/ last.requests[Len(last.requests)] = C3_Request(last.cycle)
           \/ /\ last.cycle = 2 /\ IsNone(battery.cell_count)
              /\ last.requests[Len(last.requests)] = "COMMAND_FET"
        /\ \A i \in 1..(Len(last.requests) - 1) :
               last.requests[i] \in {"COMMAND_SOC", "COMMAND_FET"}

\* the fourth cycle of a run: the temperature range was read and the cycle wrapped
C3_Witness ==
    /\ last.op = "refresh_data" /\ last.cycle = 3 /\ run = 0
    /\ battery.poll_step = 0
    /\ last.requests[Len(last.requests)] = "COMMAND_MINMAX_TEMP"
    /\ ~IsNone(battery.cell_min_no) /\ ~IsNone(battery.protection.high_voltage)
    /\ battery.cells # <<>>

----------------------------------------------------------------------------
(* The error latch: the polling cycle and the cache pull while time passes *)
(* and the surrounding driver latches errors.                              *)

LatchSoc == {EmptyFrame, Frame(SocPayload(520, 30000, 805))}
LatchFet == {Frame(FetPayload(1, 1, 100000))}
LatchOpt ==
    [step \in 0..3 |->
        CASE step = 0 -> {Frame(MinMaxPayload(3400, 2, 3300, 1))}
          [] step = 1 -> {Frame(AlarmPayload(48, 0, 0))}
          [] step = 2 -> {Frame(CellFrame(1, 3300, 3310, 3320))}
          [] step = 3 -> {Frame(TempPayload(65, 1, 60, 2))}]
LatchCaches ==
    {<<>>, <<<<RESPONSE_STATUS_ID, StatusPayload(4, 2, 1, 1, 7)>>>>,
     <<<<COMMAND_STATUS_ID, StatusPayload(4, 2, 1, 1, 7)>>>>}

LatchNext ==
    \/ RefreshData(LatchSoc, LatchFet, LatchOpt)
    \/ ReadDalyCan(LatchCaches)
    \/ TestConnection(LatchCaches)
    \/ Tick
    \/ LatchError

LatchSpec == PollInit /\ [][LatchNext]_vars

\* C8: with error_active set and more than 120 seconds since last_error_time, the
\* next invocation of refresh_data clears error_active; with 120 seconds or less
\* it leaves error_active set (stated for the cycles that return success).
C8_LatchClearedByCycle ==
    [][(last'.op = "refresh_data" /\ last'.ret = "true" /\ battery.error_active) =>
          /\ (now - battery.last_error_time) > 120 => ~battery'.error_active
          /\ (now - battery.last_error_time) <= 120 => battery'.error_active]_vars

\* what the code does: read_daly_can evaluates the latch, refresh_data never does
Latch_OnlyReadDalyCanClears ==
    [][(battery.error_active /\ ~battery'.error_active) =>
          /\ last'.op \in {"read_daly_can", "test_connection"}
          /\ (now - battery.last_error_time) > 120]_vars

----------------------------------------------------------------------------
(* read_soc_data alone, on SOC payloads around the bounds of the current.  *)

\* raw currents: CURRENT_ZERO_CONSTANT + d, the physical current being -d or d tenths
SocOffsets == {-1260, -1259, -650, -649, 0, 649, 650, 1259, 1260}
SocReplies ==
    BadReplies
        \cup {Frame(SocPayload(520, CURRENT_ZERO_CONSTANT + d, 805)) : d \in SocOffsets}
        \cup {Frame(SocPayload(40000, CURRENT_ZERO_CONSTANT, 33000))}

SocInit == Init /\ battery.device_address = 0
SocNext == ReadSocData(SocReplies)
SocSpec == SocInit /\ [][SocNext]_vars

\* the fields of a payload as the wire layout of the claim reads them: u16
C5_U16(data, offset) == data[offset + 1] * 256 + data[offset + 2]
\* and as a signed 16 bit number
C5_I16(data, offset) ==
    IF C5_U16(data, offset) >= 32768 THEN C5_U16(data, offset) - 65536
    ELSE C5_U16(data, offset)
\* (raw - 30000) / -10 times the inversion factor, in tenths
C5_Current(raw) == (30000 - raw) * invert
\* min = -(max_discharge_current * 2.1), max = max_charge_current * 1.3, in tenths
C5_Min == 0 - MAX_BATTERY_DISCHARGE_CURRENT * 21
C5_Max == MAX_BATTERY_CHARGE_CURRENT * 13

C5_FullFirstReply ==
    /\ last.op = "read_soc_data" /\ last.used # <<>>
    /\ last.used[1].sent /\ Len(last.used[1].data) >= 8

\* C4: when every SOC reply of one read_soc_data call is a full payload whose
\* current is outside the bounds, the call issues the SOC request 2 times,
\* returns failure, and voltage, current and soc are as before the call.
C4_RejectedTwiceUnchanged ==
    [][(/\ last'.op = "read_soc_data" /\ last'.used # <<>>
        /\ \A i \in DOMAIN last'.used : SocRejected(last'.used[i])) =>
          /\ last'.requests = <<"COMMAND_SOC", "COMMAND_SOC">>
          /\ Len(last'.used) = 2
          /\ last'.ret = "false"
          /\ battery'.voltage = battery.voltage
          /\ battery'.current = battery.current
          /\ battery'.soc = battery.soc]_vars

\* two rejected readings after a good one: the good values are still there
C4_Witness ==
    /\ last.op = "read_soc_data" /\ last.ret = "false" /\ Len(last.used) = 2
    /\ \A i \in DOMAIN last.used : SocRejected(last.used[i])
    /\ ~IsNone(battery.voltage) /\ ~IsNone(battery.current) /\ ~IsNone(battery.soc)

\* C5 as claimed: a full payload of u16 fields whose current lies within the
\* bounds, the bounds included, is accepted on the first attempt and stored as
\* voltage = raw, current = (30000 - raw) * inversion, soc = raw (in tenths).
C5_InBoundsInclusive ==
    LET d == last.used[1].data
    IN  (/\ C5_FullFirstReply
         /\ C5_Min <= C5_Current(C5_U16(d, 4)) /\ C5_Current(C5_U16(d, 4)) <= C5_Max) =>
            /\ last.ret = "true" /\ Len(last.requests) = 1
            /\ battery.voltage = Some(C5_U16(d, 0))
            /\ battery.current = Some(C5_Current(C5_U16(d, 4)))
            /\ battery.soc = Some(C5_U16(d, 6))

\* C5 as amended: the fields are read as signed 16 bit numbers; a payload whose
\* current lies strictly between the bounds is accepted on the first attempt and
\* stored as above; a current equal to a bound is rejected like one outside.
C5_StrictlyInBounds ==
    LET d == last.used[1].data
        current == C5_Current(C5_I16(d, 4))
    IN  C5_FullFirstReply =>
            /\ (C5_Min < current /\ current < C5_Max) =>
                   /\ last.ret = "true" /\ Len(last.requests) = 1
                   /\ battery.voltage = Some(C5_I16(d, 0))
                   /\ battery.current = Some(current)
                   /\ battery.soc = Some(C5_I16(d, 6))
            /\ (current <= C5_Min \/ current >= C5_Max) =>
                   (last.ret = "true" => Len(last.requests) = 2)

\* an accepted payload next to the upper bound, with the current inverted
C5_Witness ==
    /\ C5_FullFirstReply /\ last.ret = "true" /\ Len(last.requests) = 1
    /\ invert = -1
    /\ battery.current = Some(C5_Max - 1)
    /\ battery.voltage = Some(520) /\ battery.soc = Some(805)

----------------------------------------------------------------------------
(* Every read on its own, on good, short and empty replies.                *)

DecodeStatus == BadReplies \cup {Frame(StatusPayload(4, 2, 1, 1, 7)), Frame(StatusPayload(0, 3, 0, 1, 9))}
DecodeSoc == BadReplies \cup {Frame(SocPayload(520, 30000, 805)), Frame(SocPayload(520, 32000, 805))}
DecodeFet == BadReplies \cup {Frame(FetPayload(1, 0, 100000))}
DecodeMinMax == BadReplies \cup {Frame(MinMaxPayload(3400, 2, 3300, 1))}
DecodeTemp == BadReplies \cup {Frame(TempPayload(65, 1, 60, 2))}
DecodeAlarm == BadReplies \cup {Frame(AlarmPayload(48, 0, 0))}
DecodeCells == BadReplies \cup {Frame(CellFrame(1, 3300, 3310, 3320))}

DecodeNext ==
    \/ ReadStatusData(DecodeStatus)
    \/ ReadSocData(DecodeSoc)
    \/ ReadFedData(DecodeFet)
    \/ ReadCellVoltageRangeData(DecodeMinMax)
    \/ ReadTemperatureRangeData(DecodeTemp)
    \/ ReadAlarmData(DecodeAlarm)
    \/ ReadCellsVolts(DecodeCells)

DecodeSpec == PollInit /\ [][DecodeNext]_vars

\* the bytes the decoder of a read needs
C6_Layout(op) ==
    CASE op = "read_status_data" -> 8
      [] op = "read_soc_data" -> 8
      [] op = "read_fed_data" -> 8
      [] op = "read_cell_voltage_range_data" -> 6
      [] op = "read_temperature_range_data" -> 4
      [] op = "read_alarm_data" -> 8
      [] op = "read_cells_volts" -> 7
ReadOps ==
    {"read_status_data", "read_soc_data", "read_fed_data", "read_cell_voltage_range_data",
     "read_temperature_range_data", "read_alarm_data", "read_cells_volts"}

\* C6: a read whose request yields no frame, or a payload shorter than the layout
\* of its decoder, returns false, lets no error escape, and leaves every field of
\* the model as it was.
C6_ShortReplyFails ==
    [][(/\ last'.op \in ReadOps /\ last'.used # <<>>
        /\ ShortReply(last'.used[Len(last'.used)], C6_Layout(last'.op))) =>
          /\ last'.ret = "false"
          /\ battery' = battery]_vars

\* C7: a read that returns failure leaves the model at its last values; a status
\* decode that fails on cell_count = 0 leaves cell_count, temp_sensors,
\* charger_connected, load_connected and charge_cycles as before the call.
C7_FailureKeepsModel ==
    [][(last'.op \in ReadOps /\ last'.ret = "false") =>
          /\ battery'.cell_count = battery.cell_count
          /\ battery'.temp_sensors = battery.temp_sensors
          /\ battery'.charger_connected = battery.charger_connected
          /\ battery'.load_connected = battery.load_connected
          /\ battery'.charge_cycles = battery.charge_cycles
          /\ battery' = battery]_vars

----------------------------------------------------------------------------
(* read_bus_data_daly step by step: the message is sent, then the          *)
(* iteration over can_bus takes the frames as they arrive.  The iteration  *)
(* of a bus waits for the next frame for as long as none arrives.          *)

BusFrames == {<<>>, <<1, 2, 3>>, CellFrame(1, 3300, 3310, 3320)}

\* read_bus_data_daly(can_bus, command, expectedMessageCount) is called
BusCall ==
    /\ bus.pc = "idle"
    /\ \E n \in {1, CELL_VOLTS_FRAMES} :
           bus' = [pc |-> "send", expected |-> n, count |-> 0, response |-> <<>>, waited |-> 0]
    /\ UNCHANGED <<battery, now, invert, last, run>>

\* can_bus.send(message, timeout=0.2)
BusSend ==
    /\ bus.pc = "send"
    /\ bus' = [bus EXCEPT !.pc = "recv"]
    /\ UNCHANGED <<battery, now, invert, last, run>>

\* can_bus.send raises: the message was not sent within the timeout
BusSendTimeout ==
    /\ bus.pc = "send"
    /\ bus' = [bus EXCEPT !.pc = "raised"]
    /\ UNCHANGED <<battery, now, invert, last, run>>

\* for msg in can_bus: a frame arrives; the loop extends the response, counts,
\* and breaks when count == expectedMessageCount
BusRecv ==
    /\ bus.pc = "recv"
    /\ \E data \in BusFrames :
           bus' = [bus EXCEPT !.response = @ \o data,
                              !.count = @ + 1,
                              !.pc = IF bus.count + 1 = bus.expected THEN "done" ELSE "recv"]
    /\ UNCHANGED <<battery, now, invert, last, run>>

\* for msg in can_bus: 0.1 s passes without a frame, the iteration goes on waiting
BusWait ==
    /\ bus.pc = "recv"
    /\ bus.waited < MaxWait
    /\ bus' = [bus EXCEPT !.waited = @ + 1]
    /\ UNCHANGED <<battery, now, invert, last, run>>

\* return response, or the exception of send leaves the call
BusReturn ==
    /\ bus.pc \in {"done", "raised"}
    /\ bus' = IdleBus
    /\ UNCHANGED <<battery, now, invert, last, run>>

BusNext == BusCall \/ BusSend \/ BusSendTimeout \/ BusRecv \/ BusWait \/ BusReturn

\* the program takes its steps; whether a frame arrives is up to the bus
BusSpec ==
    /\ PollInit /\ [][BusNext]_vars
    /\ WF_vars(BusSend \/ BusSendTimeout)
    /\ WF_vars(BusWait)
    /\ WF_vars(BusReturn)

\* C9: a call of read_bus_data_daly blocks only until expected_count frames are
\* received or the timeout of 0.2 s has elapsed: it is never still waiting for frames
\* after the timeout, but has returned the partial or empty response by then.
C9_ReturnsByTimeout == bus.pc = "recv" => bus.waited <= TIMEOUT_TICKS

\* C9 as termination: a call that waits for frames comes back.  It does not hold
\* either: without frames the call waits for ever.
Bus_AlwaysReturns == (bus.pc = "recv") ~> (bus.pc = "done")

\* what the code does: it returns only with expectedMessageCount frames
Bus_ReturnsOnlyComplete == bus.pc = "done" => bus.count = bus.expected

----------------------------------------------------------------------------
(* The cell voltages: the status read sets the cell count, read_cells_volts *)
(* takes the CELL_VOLTS_FRAMES frames of a reply.                           *)

\* the frames of a reply: frame k (from 0) has the index indices[k + 1] and the
\* voltages base + 10 * (3 * k + offset) millivolt
RECURSIVE CellsData(_, _, _)
CellsData(indices, base, k) ==
    IF k >= Len(indices) THEN <<>>
    ELSE CellFrame(indices[k + 1], base + 30 * k, base + 30 * k + 10, base + 30 * k + 20)
             \o CellsData(indices, base, k + 1)

CellsIndices ==
    {<<1, 2, 3, 4, 5, 6>>, <<0, 1, 2, 3, 4, 5>>, <<2, 3, 4, 5, 6, 7>>,
     <<1, 1, 1, 1, 1, 1>>, <<3, 2, 1, 3, 2, 1>>, <<1, 1, 1, 1, 1, 0>>}
CellsBases == {3300, 1430}
CellsReplies ==
    BadReplies
        \cup {Frame(CellsData(i, b, 0)) : i \in CellsIndices, b \in CellsBases}
        \cup {Frame(SubSeq(CellsData(<<1, 2, 3, 4, 5, 6>>, 3300, 0), 1, 45))}
CellsStatus ==
    {Frame(StatusPayload(n, 2, 1, 1, 7)) : n \in {2, 4, 7}}

CellsNext ==
    \/ ReadStatusData(CellsStatus)
    \/ ReadCellsVolts(CellsReplies)

CellsSpec == PollInit /\ [][CellsNext]_vars

\* the frames of the reply of the last read_cells_volts, as the claim reads them
C10_Data == last.used[1].data
C10_Frames == Len(C10_Data) \div 8
C10_FrameIndex(j) == C10_Data[8 * j + 1]
C10_Raw(j, offset) ==
    LET u == C10_Data[8 * j + 2 + 2 * offset] * 256 + C10_Data[8 * j + 3 + 2 * offset]
    IN  IF u >= 32768 THEN u - 65536 ELSE u
\* a voltage below half the minimum plausible cell voltage is stored as unknown
C10_Stored(raw) == IF raw * 2 < 2900 THEN None ELSE Some(raw)
\* the frames that have a voltage for cell i
C10_Writers(i) ==
    {j \in 0..(C10_Frames - 1) :
        \E offset \in 0..2 : (C10_FrameIndex(j) - 1) * 3 + offset = i}
C10_LastWriter(i) == CHOOSE j \in C10_Writers(i) : \A k \in C10_Writers(i) : k <= j

C10_Called ==
    /\ last.op = "read_cells_volts" /\ last.used # <<>>
    /\ last.used[1].sent
    /\ ~IsNone(battery.cell_count) /\ Val(battery.cell_count) >= 0

\* what a reply of whole 8 byte frames leaves in the cells, by the mapping
\* (f - 1) * 3 + offset: the call succeeds and the last frame that has a voltage
\* for a cell decides it
C10_Mapped ==
    /\ last.ret = "true"
    /\ \A i \in 0..(Val(battery.cell_count) - 1) :
           C10_Writers(i) # {} =>
               battery.cells[i + 1] =
                   C10_Stored(C10_Raw(C10_LastWriter(i),
                                      i - (C10_FrameIndex(C10_LastWriter(i)) - 1) * 3))

\* C10: every 8 byte frame of the reply, with frame index f, writes its three
\* voltages to the cells (f - 1) * 3 + offset, and an index >= cell_count is not
\* written: whatever the frames, cells has cell_count entries after the call.
C10_CellIndexMapping ==
    C10_Called =>
        /\ Len(battery.cells) = Val(battery.cell_count)
        /\ Len(C10_Data) % 8 = 0 => C10_Mapped

\* the same for replies whose frames all have a frame index from 1 on: it holds
Cells_MappingFromFrameOne ==
    C10_Called =>
        /\ Len(battery.cells) = Val(battery.cell_count)
        /\ (/\ Len(C10_Data) % 8 = 0
            /\ \A j \in 0..(C10_Frames - 1) : C10_FrameIndex(j) >= 1) => C10_Mapped

\* four cells, frames 1 to 6: frame 1 gives cells 0 to 2, frame 2 gives cell 3, and
\* its voltages for the cells 4 and 5 are dropped
Cells_FourCellsWitness ==
    /\ C10_Called /\ last.ret = "true"
    /\ C10_Frames = 6 /\ C10_FrameIndex(0) = 1 /\ C10_FrameIndex(1) = 2
    /\ battery.cell_count = Some(4)
    /\ battery.cells = <<Some(3300), Some(3310), Some(3320), Some(3330)>>

----------------------------------------------------------------------------
(* Partial frame sets. *)

\* a frame of the reply has a voltage for cell i
C11_Reported(data, i) ==
    \E j \in 0..((Len(data) \div 8) - 1), offset \in 0..2 :
        (data[8 * j + 1] - 1) * 3 + offset = i

\* a successful read_cells_volts that took a reply while cells had cell_count entries
C11_SuccessfulCall ==
    /\ last'.op = "read_cells_volts" /\ last'.ret = "true" /\ last'.used # <<>>
    /\ ~IsNone(battery.cell_count)
    /\ Len(battery.cells) = Val(battery.cell_count)

C11_Unreported(i) == ~C11_Reported(last'.used[1].data, i)

\* C11: after a successful read_cells_volts, with the cell array already sized to
\* the cell count, every cell that no frame of the reply reports keeps the voltage
\* it had before the call.
C11_UnreportedCellsKept ==
    [][C11_SuccessfulCall =>
          \A i \in 0..(Val(battery.cell_count) - 1) :
              C11_Unreported(i) => battery'.cells[i + 1] = battery.cells[i + 1]]_vars

\* the same for replies whose frames all have a frame index from 1 on: it holds
Cells_UnreportedKeptFromFrameOne ==
    [][(/\ C11_SuccessfulCall
        /\ \A j \in 0..((Len(last'.used[1].data) \div 8) - 1) :
               last'.used[1].data[8 * j + 1] >= 1) =>
          \A i \in 0..(Val(battery.cell_count) - 1) :
              C11_Unreported(i) => battery'.cells[i + 1] = battery.cells[i + 1]]_vars

----------------------------------------------------------------------------
(* The length of the cell array. *)

\* C12: in every state in which the cell count is known, the cells array has
\* cell_count entries: the status decode that sets the cell count sizes the array.
C12_CellsLengthIsCellCount ==
    ~IsNone(battery.cell_count) => Len(battery.cells) = Val(battery.cell_count)

\* what the code keeps: the array is sized by read_cells_volts, once it has a reply
Cells_SizedByReadCellsVolts ==
    (/\ last.op = "read_cells_volts" /\ last.used # <<>> /\ last.used[1].sent
     /\ Val(battery.cell_count) >= 0) =>
        Len(battery.cells) = Val(battery.cell_count)

----------------------------------------------------------------------------
(* The alarm flags: read_alarm_data over every value of each of the three   *)
(* alarm bytes.                                                             *)

Byte == 0..255
\* one byte takes every value while the other two are 0, and some payloads with
\* bits set in all three bytes
AlarmMixed == {<<255, 255, 255>>, <<170, 85, 170>>, <<85, 170, 85>>, <<56, 3, 10>>}
AlarmReplies ==
    {EmptyFrame}
        \cup {Frame(AlarmPayload(x, 0, 0)) : x \in Byte}
        \cup {Frame(AlarmPayload(0, x, 0)) : x \in Byte}
        \cup {Frame(AlarmPayload(0, 0, x)) : x \in Byte}
        \cup {Frame(AlarmPayload(m[1], m[2], m[3])) : m \in AlarmMixed}

AlarmNext == ReadAlarmData(AlarmReplies)

AlarmSpec == PollInit /\ [][AlarmNext]_vars

\* 2 if one of the alarm bits of the wire byte is set, else 1 if one of the
\* pre-alarm bits is set, else 0
C13_BitSet(byte, k) == (byte \div (2 ^ k)) % 2 = 1
C13_Level(byte, alarmBits, preAlarmBits) ==
    IF \E k \in alarmBits : C13_BitSet(byte, k) THEN 2
    ELSE IF \E k \in preAlarmBits : C13_BitSet(byte, k) THEN 1 ELSE 0

C13_FullReply ==
    /\ last.op = "read_alarm_data" /\ last.used # <<>>
    /\ last.used[1].sent /\ Len(last.used[1].data) >= 8

\* C13: for a full alarm payload read_alarm_data succeeds and sets each protection
\* condition to 2 if one of its alarm bits is set, else 1 if one of its pre-alarm
\* bits is set, else 0, by the bit table of the voltage, temperature and
\* current/soc bytes.
C13_AlarmTable ==
    C13_FullReply =>
        LET volt == last.used[1].data[1]
            temp == last.used[1].data[2]
            crnt == last.used[1].data[3]
            p == battery.protection
        IN  /\ last.ret = "true"
            /\ p.high_voltage = Some(C13_Level(volt, {4, 5}, {0, 1, 2, 3}))
            /\ p.low_voltage = Some(C13_Level(volt, {7}, {6}))
            /\ p.high_charge_temp = Some(C13_Level(temp, {1}, {0}))
            /\ p.low_charge_temp = Some(C13_Level(temp, {3}, {2}))
            /\ p.high_temperature = Some(C13_Level(temp, {5}, {4}))
            /\ p.low_temperature = Some(C13_Level(temp, {7}, {6}))
            /\ p.high_charge_current = Some(C13_Level(crnt, {1, 3}, {0, 2}))
            /\ p.low_soc = Some(C13_Level(crnt, {7}, {6}))

\* the voltage byte 0b00111000 has an alarm bit and a pre-alarm bit of the high
\* voltage condition set: the alarm takes precedence
C13_Witness ==
    /\ C13_FullReply /\ last.ret = "true"
    /\ last.used[1].data[1] = 56
    /\ battery.protection.high_voltage = Some(2)
    /\ battery.protection.low_voltage = Some(0)

----------------------------------------------------------------------------
(* The two ingestion modes: the status read on request and the pull of the  *)
(* frame cache, for every configured device address.                        *)

CacheInit == Init /\ invert = 1

CacheStatus == {EmptyFrame} \cup {Frame(d) : d \in CacheData}

CacheNext ==
    \/ ReadStatusData(CacheStatus)
    \/ ReadDalyCan(Caches)
    \/ TestConnection(Caches)

CacheSpec == CacheInit /\ [][CacheNext]_vars

\* the fields of the status, and their unsigned reading of a status payload
C14_StatusFields(b) ==
    <<b.cell_count, b.temp_sensors, b.charger_connected, b.load_connected, b.charge_cycles>>
C14_Unsigned(data) ==
    <<Some(data[1]), Some(data[2]), Some(data[3] # 0), Some(data[4] # 0),
      Some(data[6] * 256 + data[7])>>

\* C14: read_status_data stores cell_count and temp_sensors as u8 and charge_cycles
\* as u16 of the status payload, and read_daly_can, pulling the same payload
\* as the status frame of the cache, stores the same values and agrees with
\* read_status_data on whether the payload is accepted.
C14_SameDecoding ==
    [][/\ (/\ last'.op = "read_status_data" /\ last'.used # <<>>
           /\ last'.used[1].sent /\ Len(last'.used[1].data) >= 8) =>
              C14_StatusFields(battery') = C14_Unsigned(last'.used[1].data)
       /\ (/\ last.op = "read_status_data" /\ last.used # <<>>
           /\ last.used[1].sent /\ Len(last.used[1].data) >= 8
           /\ last'.op = "read_daly_can" /\ Len(last'.cache) = 1
           /\ last'.cache[1][1] + battery.device_address = COMMAND_STATUS_ID
           /\ last'.cache[1][2] = last.used[1].data) =>
              /\ last'.ret = last.ret
              /\ C14_StatusFields(battery') = C14_StatusFields(battery)]_vars

\* what the code does in cache-pull mode: a frame it takes as the status frame
\* makes read_daly_can raise, and no field of the status is stored
Cache_StatusFrameRaises ==
    [][(/\ last'.op = "read_daly_can"
        /\ \E i \in DOMAIN last'.cache :
               last'.cache[i][1] + battery.device_address = COMMAND_STATUS_ID) =>
          /\ last'.ret = "raise"
          /\ C14_StatusFields(battery') = C14_StatusFields(battery)]_vars

----------------------------------------------------------------------------
(* Detection. *)

\* the frame id is a status frame of the device: by the test of read_daly_can, or
\* as the status response id of the registry offset by the device address
C15_StatusId(id, address) ==
    \/ id + address = COMMAND_STATUS_ID
    \/ id - address = RESPONSE_STATUS_ID

\* the cache is empty, or holds no status frame, or every status frame it holds
\* has the cell count 0
C15_NoCellCount(cache, address) ==
    \A i \in DOMAIN cache :
        C15_StatusId(cache[i][1], address) => cache[i][2][1] = 0

\* C15: when the frame cache holds no status frame with a cell count other than 0,
\* read_daly_can returns False and test_connection returns False; neither raises.
C15_NotDetected ==
    (/\ last.op \in {"read_daly_can", "test_connection"}
     /\ C15_NoCellCount(last.cache, battery.device_address)) =>
        last.ret = "false"

\* what the code does: test_connection turns every exception into False, and no
\* cache makes it return True
Cache_TestConnectionFalse == last.op = "test_connection" => last.ret = "false"

\* read_daly_can returns False when no frame of the cache passes its test, and
\* raises otherwise
Cache_ReadDalyCanOutcome ==
    last.op = "read_daly_can" =>
        last.ret = (IF \E i \in DOMAIN last.cache :
                          last.cache[i][1] + battery.device_address = COMMAND_STATUS_ID
                    THEN "raise" ELSE "false")

----------------------------------------------------------------------------
(* The threshold of a cell voltage: read_cells_volts on the frames 1 to 6    *)
(* with raw readings around half the minimum cell voltage and at the ends   *)
(* of the 16 bit range.                                                     *)

\* the first raw reading of a reply; the following ones are 10 apart
VoltBases == {0, 1289, 1430, 1441, 2730, 3300, 32600, 65365}
VoltReplies ==
    {EmptyFrame} \cup {Frame(CellsData(<<1, 2, 3, 4, 5, 6>>, b, 0)) : b \in VoltBases}
VoltStatus == {Frame(StatusPayload(n, 2, 1, 1, 7)) : n \in {4, 7, 10, 18}}

VoltNext ==
    \/ ReadStatusData(VoltStatus)
    \/ ReadCellsVolts(VoltReplies)

VoltSpec == PollInit /\ [][VoltNext]_vars

\* the signed 16 bit reading of cell i in the reply: frame i \div 3, offset i % 3
C16_Raw(i) ==
    LET at == 8 * (i \div 3) + 2 + 2 * (i % 3)
        u == last.used[1].data[at] * 256 + last.used[1].data[at + 1]
    IN  IF u >= 32768 THEN u - 65536 ELSE u

C16_Called ==
    /\ last.op = "read_cells_volts" /\ last.used # <<>>
    /\ last.used[1].sent /\ Len(last.used[1].data) = 48

\* C16: a reading strictly below half the minimum plausible cell voltage (2900 mV)
\* is stored as unknown, a reading equal to or above it is stored as the value.
C16_Threshold ==
    C16_Called =>
        /\ last.ret = "true"
        /\ \A i \in 0..(Val(battery.cell_count) - 1) :
               battery.cells[i + 1] =
                   (IF 2 * C16_Raw(i) < 2900 THEN None ELSE Some(C16_Raw(i)))

\* the readings 1440 and 1450 of two neighbouring cells: the first is unknown, the
\* second is stored
C16_Witness ==
    /\ C16_Called /\ last.ret = "true"
    /\ \E i \in 1..(Len(battery.cells) - 1) :
           /\ C16_Raw(i - 1) = 1440 /\ battery.cells[i] = None
           /\ C16_Raw(i) = 1450 /\ battery.cells[i + 1] = Some(1450)

----------------------------------------------------------------------------
(* The cell voltage range: read_cell_voltage_range_data on payloads with    *)
(* small and large fields.                                                  *)

RangeMaxVolts == {3300, 3400, 32767, 32768, 65535}
RangeMaxNos == {1, 2, 127, 128, 255}
RangeMinVolts == {0, 3300, 40000}
RangeMinNos == {1, 16, 200}
RangeReplies ==
    {EmptyFrame}
        \cup {Frame(MinMaxPayload(maxmv, maxno, minmv, minno)) :
                 maxmv \in RangeMaxVolts, maxno \in RangeMaxNos,
                 minmv \in RangeMinVolts, minno \in RangeMinNos}

RangeNext == ReadCellVoltageRangeData(RangeReplies)

RangeSpec == PollInit /\ [][RangeNext]_vars

C17_Data == last.used[1].data
C17_FullReply ==
    /\ last.op = "read_cell_voltage_range_data" /\ last.used # <<>>
    /\ last.used[1].sent /\ Len(C17_Data) >= 6

\* C17: for a full min/max payload the cell numbers stored are the wire indices
\* (u8) minus 1, and the voltages stored are the u16 millivolt fields.
C17_RangeDecoding ==
    C17_FullReply =>
        /\ last.ret = "true"
        /\ battery.cell_max_voltage = Some(C17_Data[1] * 256 + C17_Data[2])
        /\ battery.cell_max_no = Some(C17_Data[3] - 1)
        /\ battery.cell_min_voltage = Some(C17_Data[4] * 256 + C17_Data[5])
        /\ battery.cell_min_no = Some(C17_Data[6] - 1)

\* the same for payloads with voltages below 32768 and indices below 128: it holds
Range_DecodingOfSmallFields ==
    (/\ C17_FullReply
     /\ C17_Data[1] < 128 /\ C17_Data[3] < 128 /\ C17_Data[4] < 128 /\ C17_Data[6] < 128) =>
        /\ last.ret = "true"
        /\ battery.cell_max_voltage = Some(C17_Data[1] * 256 + C17_Data[2])
        /\ battery.cell_max_no = Some(C17_Data[3] - 1)
        /\ battery.cell_min_voltage = Some(C17_Data[4] * 256 + C17_Data[5])
        /\ battery.cell_min_no = Some(C17_Data[6] - 1)

\* the wire indices 2 and 1 are stored as 1 and 0
Range_IndexOneWitness ==
    /\ C17_FullReply /\ C17_Data[3] = 2 /\ C17_Data[6] = 1
    /\ battery.cell_max_no = Some(1) /\ battery.cell_min_no = Some(0)
    /\ battery.cell_max_voltage = Some(3400) /\ battery.cell_min_voltage = Some(3300)

----------------------------------------------------------------------------
(* The requests of one cycle. *)

\* the number of requests of a call that are among names
C18_Count(requests, names) == Cardinality({i \in DOMAIN requests : requests[i] \in names})

\* the request of the optional category that a poll step selects
C18_Selected(step) ==
    CASE step = 0 -> "COMMAND_MINMAX_CELL_VOLTS"
      [] step = 1 -> "COMMAND_ALARM"
      [] step = 2 -> "COMMAND_CELL_VOLTS"
      [] step = 3 -> "COMMAND_MINMAX_TEMP"

C18_Optional ==
    {"COMMAND_MINMAX_CELL_VOLTS", "COMMAND_ALARM", "COMMAND_CELL_VOLTS",
     "COMMAND_MINMAX_TEMP", "COMMAND_STATUS"}

\* C18: one invocation of refresh_data, whatever the replies, sends at most 2 SOC
\* requests, at most one FET request and at most one request of an optional
\* category, the one its poll step selects: at most 4 requests in all.
C18_BoundedRequests ==
    [][last'.op = "refresh_data" =>
          /\ C18_Count(last'.requests, {"COMMAND_SOC"}) <= 2
          /\ C18_Count(last'.requests, {"COMMAND_FET"}) <= 1
          /\ C18_Count(last'.requests, C18_Optional) <= 1
          /\ C18_Count(last'.requests, C18_Optional \ {C18_Selected(battery.poll_step)}) = 0
          /\ Len(last'.requests) <= 4
          /\ \A i \in DOMAIN last'.requests :
                 last'.requests[i] \in {"COMMAND_SOC", "COMMAND_FET"} \cup C18_Optional]_vars

\* a cycle of 4 requests: the SOC request twice, the FET request and the cell
\* voltage request
C18_Witness ==
    /\ last.op = "refresh_data"
    /\ last.requests = <<"COMMAND_SOC", "COMMAND_SOC", "COMMAND_FET", "COMMAND_CELL_VOLTS">>

----------------------------------------------------------------------------
(* The classification of the cached frames. *)

\* a read_daly_can on a cache of one frame
C19_OneFrame == last'.op = "read_daly_can" /\ Len(last'.cache) = 1
C19_Id == last'.cache[1][1]
C19_Payload == last'.cache[1][2]

\* C19: for every device address, read_daly_can takes a cached frame as the status
\* frame, and decodes it, exactly when its id minus the device address is the
\* status response id; a frame with another id, the status command id included,
\* leaves the model as it was.
C19_ClassifiedBySubtraction ==
    [][C19_OneFrame =>
          IF C19_Id - battery.device_address = RESPONSE_STATUS_ID
          THEN /\ C14_StatusFields(battery') = C14_Unsigned(C19_Payload)
               /\ last'.ret = (IF C19_Payload[1] # 0 THEN "true" ELSE "false")
          ELSE /\ battery' = battery
               /\ last'.ret = "false"]_vars

\* what the code does: it takes a frame as the status frame exactly when its id
\* plus the device address is the status command id, and no frame changes the model
Cache_ClassifiedByCommandId ==
    [][C19_OneFrame =>
          /\ battery' = battery
          /\ last'.ret = (IF C19_Id + battery.device_address = COMMAND_STATUS_ID
                          THEN "raise" ELSE "false")]_vars

----------------------------------------------------------------------------
(* A frame with the frame index 0. *)

\* read_cells_volts took a reply of whole 8 byte frames, the cell count being known
\* and at least 1
C20_Call ==
    /\ last'.op = "read_cells_volts" /\ last'.used # <<>> /\ last'.used[1].sent
    /\ Len(last'.used[1].data) % 8 = 0
    /\ ~IsNone(battery.cell_count) /\ Val(battery.cell_count) >= 1

\* C20: read_cells_volts writes only cells (f - 1) * 3 + offset within
\* 0..cell_count - 1: whatever the frame indices, 0 included, the call does not
\* fail, and a cell that is not (f - 1) * 3 + offset of a frame of the reply keeps
\* its voltage.
C20_OnlyMappedCellsWritten ==
    [][C20_Call =>
          /\ last'.ret = "true"
          /\ Len(battery.cells) = Val(battery.cell_count) =>
                 \A i \in 0..(Val(battery.cell_count) - 1) :
                     ~C11_Reported(last'.used[1].data, i) =>
                         battery'.cells[i + 1] = battery.cells[i + 1]]_vars

\* what the code does with a frame index 0: with fewer than 3 cells the call
\* raises, with 3 cells or more the three voltages go to the last three cells
Cells_FrameZeroWraps ==
    [][(/\ C20_Call /\ Len(last'.used[1].data) = 48
        /\ \A j \in 0..4 : last'.used[1].data[8 * j + 1] = 1
        /\ last'.used[1].data[41] = 0) =>
          IF Val(battery.cell_count) < 3 THEN last'.ret = "raise"
          ELSE /\ last'.ret = "true"
               /\ \A o \in 0..2 :
                      battery'.cells[Val(battery.cell_count) - 2 + o] =
                          C10_Stored(last'.used[1].data[42 + 2 * o] * 256
                                       + last'.used[1].data[43 + 2 * o])]_vars

====
